---------------------------- MODULE Spec2Model ----------------------------
(***************************************************************************)
(* A model of the merge-ai-service RAG backend: the ingestion coordinator  *)
(* (app/routes/ingest.py), the vector store client                         *)
(* (app/services/vector_store.py) and the retrieval orchestrator           *)
(* (app/services/retrieval_service.py).                                    *)
(*                                                                         *)
(* The vector index (a Qdrant collection) is one remote store shared by    *)
(* every worker process of the service.  Each client call (count, delete,  *)
(* upsert, search) is one atomic operation of the index.  A worker process *)
(* has its own processing_status_store (a module-level dict) and one       *)
(* event loop: a handler is suspended only at a real await (the httpx      *)
(* download, the upload read); the Qdrant and Cohere clients are           *)
(* synchronous, so from its first index call to its return a handler holds *)
(* the loop of its process, while the handlers of other processes go on.   *)
(* The state holds the processing_status_store of one worker, Local; the   *)
(* handlers of the other workers are followed for what they do to the      *)
(* index, and their own dicts (which no handler of Local reads) are not.   *)
(***************************************************************************)
EXTENDS Integers, Sequences, FiniteSets, TLC

(* ------------------------------ bounds -------------------------------- *)

\* Handlers in flight at the same time, over all worker processes.
MaxTasks == 2
\* Temporary attachment vectors the index holds at most.
MaxTempVectors == 4
ChunkSize == 3
ChunkOverlap == 1
MaxTextLen == 6

(* -------------------------- program constants ------------------------- *)

MaxFileSizeMb == 10
MinRelevanceScore == 30
TopKResults == 5
PreviewLength == 500

(* ------------------------------ universes ----------------------------- *)

Procs == {"w1", "w2"}
Local == "w1"
Files == {"f1", "f2"}
Rooms == {"r1", "r2"}
Convs == {"c1", "c2"}
Tasks == 1..MaxTasks

\* A payload key the record does not carry (payload.get(key) is None).
Missing == "missing"
\* Python's None in a status record, and the absence of a status record.
Null == "null"
\* None as the chunks_created of a status record (an Optional[int]).
NullCount == -1

\* The documents a request may bring (upload) or an S3 URL may hold.  size_mb
\* is len(content) in MiB, extract_error the extractor's error, chunks the
\* contents of the chunks chunk_text() returns for the extracted text.
Docs ==
  { [name |-> "A",      size_mb |-> 1,  extract_error |-> FALSE, chunks |-> <<1, 2, 3>>],
    [name |-> "B",      size_mb |-> 1,  extract_error |-> FALSE, chunks |-> <<4, 5, 6, 7>>],
    [name |-> "empty",  size_mb |-> 0,  extract_error |-> FALSE, chunks |-> << >>],
    [name |-> "huge",   size_mb |-> 11, extract_error |-> FALSE, chunks |-> <<1>>],
    [name |-> "broken", size_mb |-> 1,  extract_error |-> TRUE,  chunks |-> << >>],
    [name |-> "titles", size_mb |-> 1,  extract_error |-> FALSE, chunks |-> << >>] }

NoDoc == [name |-> "-", size_mb |-> 0, extract_error |-> FALSE, chunks |-> << >>]

VARIABLES
  index,                    \* the Qdrant collection: payload -> number of points
  processing_status_store,  \* worker Local's dict: file_id -> status record
  task,                     \* the ingestion and delete handlers in flight
  deleted,                  \* the last response of a delete handler
  reply,                    \* the last outcome of RetrievalService.query
  settled                   \* history: per file_id, the last undisturbed ingestion

vars == <<index, processing_status_store, task, deleted, reply, settled>>

(* ----------------------------- the index ------------------------------ *)

Range(s) == {s[i] : i \in DOMAIN s}

\* A Qdrant Filter(must=[...]): a set of conditions, each naming a payload key
\* and the values it accepts (MatchValue(v): {v}; MatchAny(any=S): S).
MatchValue(k, v) == [key |-> k, any |-> {v}]
MatchAny(k, S) == [key |-> k, any |-> S]
Matches(payload, filter) == \A c \in filter : payload[c.key] \in c.any

RECURSIVE SumCounts(_, _)
SumCounts(idx, S) ==
  IF S = {} THEN 0
  ELSE LET e == CHOOSE x \in S : TRUE IN idx[e] + SumCounts(idx, S \ {e})

\* client.count(count_filter=filter).count
IndexCount(idx, filter) ==
  SumCounts(idx, {e \in DOMAIN idx : Matches(e, filter)})

\* client.delete(points_selector=FilterSelector(filter))
IndexDeleteNothing(idx, filter) == idx
IndexDelete(idx, filter) ==
  [e \in {x \in DOMAIN idx : ~Matches(x, filter)} |-> idx[e]]

\* client.upsert(points, wait=True): every point has a fresh uuid4 id, so each
\* payload of the batch adds one point.
IndexUpsert(idx, payloads) ==
  [e \in (DOMAIN idx) \cup Range(payloads) |->
     (IF e \in DOMAIN idx THEN idx[e] ELSE 0)
       + Cardinality({i \in DOMAIN payloads : payloads[i] = e})]

\* The points of the collection: a payload and which of its copies.
Points(idx) == UNION {{<<e, k>> : k \in 1..idx[e]} : e \in DOMAIN idx}

FileFilter(f) == {MatchValue("file_id", f)}
RoomFilter(r) == {MatchValue("room_id", r)}
ConvFilter(c) == {MatchValue("conversation_id", c)}

(* --------------------------- status records --------------------------- *)

StatusRecord(s, n, e, at) ==
  [status |-> s, chunks_created |-> n, error |-> e, processed_at |-> at]

\* file_id not in processing_status_store.
NoRecord == StatusRecord("none", NullCount, Null, Null)
Pending == StatusRecord("pending", NullCount, Null, Null)
ProcessingAsCompleted == StatusRecord("completed", NullCount, Null, "utcnow")
Processing == StatusRecord("processing", NullCount, Null, Null)
Completed(n) == StatusRecord("completed", n, Null, "utcnow")
Failed(e) == StatusRecord("failed", NullCount, e, "utcnow")

\* processing_status_store[file_id] = rec, executed in worker p.
SetStatusOfAll(p, f, rec) ==
  IF p = Local THEN [g \in Files |-> rec] ELSE processing_status_store
SetStatusKeepsTerminal(p, f, rec) ==
  IF p = Local /\ processing_status_store[f].status \notin {"completed", "failed"}
  THEN [processing_status_store EXCEPT ![f] = rec]
  ELSE processing_status_store
SetStatus(p, f, rec) ==
  IF p = Local THEN [processing_status_store EXCEPT ![f] = rec]
  ELSE processing_status_store

(* ------------------------------- tasks -------------------------------- *)

\* A handler in flight: its request (kind, worker, file_id / room_id /
\* conversation_id as key, room_id of an ingestion), its position, its locals
\* (doc: the document read, count_before), and a history flag.
Idle == [kind |-> "none", proc |-> "-", key |-> "-", room_id |-> "-",
         doc |-> NoDoc, pc |-> "idle", count_before |-> 0, overlapped |-> FALSE]

IngestKinds == {"s3", "sync"}
DeleteKinds == {"delfile", "delroom", "delconv"}

\* The handler holds the event loop of its process: it is between two
\* synchronous client calls.
Blocking(t) == task[t].pc \in {"counted", "deleted"}
LoopFree(p) == \A t \in Tasks : task[t].proc = p => ~Blocking(t)

\* The filter of the delete the handler performs.
TaskFilterOfAll(rec) == {}
TaskFilter(rec) ==
  CASE rec.kind \in IngestKinds -> FileFilter(rec.key)
    [] rec.kind = "delfile" -> FileFilter(rec.key)
    [] rec.kind = "delroom" -> RoomFilter(rec.key)
    [] rec.kind = "delconv" -> ConvFilter(rec.key)
    [] OTHER -> {}

Restrict(idx, filter) == [e \in {x \in DOMAIN idx : Matches(x, filter)} |-> idx[e]]

\* History: the ingestions in flight of the file_id the ingestion rec is for.
Clashes(actor, rec) ==
  {t \in Tasks \ {actor} :
     rec.kind \in IngestKinds /\ task[t].kind \in IngestKinds /\ task[t].key = rec.key}

\* History: the handlers in flight other than `actor` that the step of `actor`
\* (which becomes rec and makes the index idx) overlaps: it changed records of
\* their filter, or both are ingestions of the same file_id.
Disturbed(actor, rec, idx) ==
  {t \in Tasks \ {actor} :
     /\ task[t] # Idle
     /\ \/ Restrict(idx, TaskFilter(task[t])) # Restrict(index, TaskFilter(task[t]))
        \/ t \in Clashes(actor, rec)}

\* The tasks after `actor` made the index idx and became rec.
TasksAfter(actor, rec, idx) ==
  [t \in Tasks |->
     IF t = actor
     THEN IF rec # Idle /\ Clashes(actor, rec) # {}
          THEN [rec EXCEPT !.overlapped = TRUE] ELSE rec
     ELSE IF t \in Disturbed(actor, rec, idx) THEN [task[t] EXCEPT !.overlapped = TRUE]
     ELSE task[t]]

\* History of a file_id: the count of its vectors after the last ingestion that
\* nothing overlapped, the document of that ingestion, and (prev) the same
\* count of the undisturbed ingestion of the same document right before it.
NoCount == [count |-> -1, doc |-> "-", prev |-> -1]

\* History: a file's entry is kept by a step that leaves the file's records
\* alone, and set by the steps of an ingestion of that file (`own`).
SettledAfter(idx, own) ==
  [f \in Files |->
     IF f \in DOMAIN own THEN own[f]
     ELSE IF Restrict(idx, FileFilter(f)) = Restrict(index, FileFilter(f))
          THEN settled[f] ELSE NoCount]

NoOwn == [f \in {} |-> NoCount]

\* No query has been answered yet.
NoReply == [kind |-> "none"]

NoResponse == [kind |-> "none", key |-> "-", vectors_deleted |-> 0, overlapped |-> FALSE]

(* ------------------------ payloads and handlers ----------------------- *)

\* store_chunks: the payload of chunk i (1-based here, chunk_index 0-based).
DocPayload(room, file, chunks, i) ==
  [room_id |-> room, file_id |-> file, conversation_id |-> Missing,
   is_temporary |-> Missing, chunk_index |-> i - 1,
   total_chunks |-> Len(chunks), content |-> chunks[i]]

\* RetrievalService.query, Flow 2: the payload of attachment chunk i.
TempPayload(conv, chunks, i) ==
  [room_id |-> Missing, file_id |-> Missing, conversation_id |-> conv,
   is_temporary |-> "True", chunk_index |-> i - 1,
   total_chunks |-> Len(chunks), content |-> chunks[i]]

\* store_chunks: the batch it upserts (none when there are no chunks).
StorePayloads(room, file, chunks) ==
  [i \in DOMAIN chunks |-> DocPayload(room, file, chunks, i)]

\* The index after the part of an ingestion handler from the download (the
\* read of the upload) to the embeddings: the handler calls the index for
\* the first time in delete_file, after embed_documents has returned.
DeletesWhilePreparing(idx, f) == IndexDelete(idx, FileFilter(f))
IndexWhilePreparing(idx, f) == idx

\* process_s3_document, from the download to the embeddings: the message of
\* the exception raised, Null when none is.
S3PrepareError(download_ok, doc, embed_ok) ==
  IF ~download_ok THEN "S3 download failed"
  ELSE IF doc.size_mb * 1024 * 1024 > MaxFileSizeMb * 1024 * 1024
    THEN "File exceeds maximum size"
  ELSE IF doc.size_mb = 0 THEN "Downloaded file is empty"
  ELSE IF doc.extract_error THEN "Text extraction failed"
  ELSE IF Len(doc.chunks) = 0 THEN "Document produced no valid text chunks"
  ELSE IF ~embed_ok THEN "embedding failed"
  ELSE Null

\* ingest_document, from the read of the upload to the embeddings: the status
\* code of the HTTPException raised, 0 when none is.
SyncPrepareError(read_ok, doc, embed_ok) ==
  IF ~read_ok THEN 400
  ELSE IF doc.size_mb * 1024 * 1024 > MaxFileSizeMb * 1024 * 1024 THEN 413
  ELSE IF doc.size_mb = 0 THEN 400
  ELSE IF doc.extract_error THEN 400
  ELSE IF Len(doc.chunks) = 0 THEN 400
  ELSE IF ~embed_ok THEN 500
  ELSE 0

\* The except clause of process_s3_document; ingest_document raises an
\* HTTPException to its caller instead and writes no status.
NoStatusOnFailure(rec, msg) == processing_status_store
StatusOnFailure(rec, msg) ==
  IF rec.kind = "s3" THEN SetStatus(rec.proc, rec.key, Failed(msg))
  ELSE processing_status_store

\* The end of the try block of process_s3_document.
StatusOnSuccessOfCountBefore(rec, chunks_stored) ==
  IF rec.kind = "s3" THEN SetStatus(rec.proc, rec.key, Completed(rec.count_before))
  ELSE processing_status_store
StatusOnSuccess(rec, chunks_stored) ==
  IF rec.kind = "s3" THEN SetStatus(rec.proc, rec.key, Completed(chunks_stored))
  ELSE processing_status_store

(* ------------------------- ingestion actions -------------------------- *)

\* POST /ingest/ingest-from-s3: record pending, schedule the worker.
IngestFromS3(t, p, f, r) ==
  /\ task[t] = Idle
  /\ LoopFree(p)
  /\ processing_status_store' = SetStatus(p, f, Pending)
  /\ task' = TasksAfter(t, [Idle EXCEPT !.kind = "s3", !.proc = p, !.key = f,
                                        !.room_id = r, !.pc = "queued"], index)
  /\ UNCHANGED <<index, deleted, reply, settled>>

\* process_s3_document starts: record processing, await the download.
ProcessStart(t) ==
  /\ task[t].kind = "s3"
  /\ task[t].pc = "queued"
  /\ LoopFree(task[t].proc)
  /\ processing_status_store' = SetStatus(task[t].proc, task[t].key, Processing)
  /\ task' = [task EXCEPT ![t].pc = "downloading"]
  /\ UNCHANGED <<index, deleted, reply, settled>>

\* process_s3_document resumes with the download: size checks, extraction,
\* chunking, embedding, then the count of delete_file.
ProcessPrepare(t, docs, oks) ==
  /\ task[t].kind = "s3"
  /\ task[t].pc = "downloading"
  /\ LoopFree(task[t].proc)
  /\ \E download_ok \in oks, doc \in docs, embed_ok \in oks, count_ok \in oks :
       LET err == S3PrepareError(download_ok, doc, embed_ok)
           msg == IF err # Null THEN err ELSE "count failed"
       IN IF err # Null \/ ~count_ok
          THEN /\ processing_status_store' = StatusOnFailure(task[t], msg)
               /\ task' = [task EXCEPT ![t] = Idle]
          ELSE /\ task' = [task EXCEPT ![t].pc = "counted", ![t].doc = doc,
                             ![t].count_before = IndexCount(index, FileFilter(task[t].key))]
               /\ UNCHANGED processing_status_store
  /\ index' = IndexWhilePreparing(index, task[t].key)
  /\ UNCHANGED <<deleted, reply, settled>>

\* POST /ingest: the request arrives, the handler awaits the upload.
IngestDocument(t, p, f, r) ==
  /\ task[t] = Idle
  /\ LoopFree(p)
  /\ task' = TasksAfter(t, [Idle EXCEPT !.kind = "sync", !.proc = p, !.key = f,
                                        !.room_id = r, !.pc = "reading"], index)
  /\ UNCHANGED <<index, processing_status_store, deleted, reply, settled>>

\* ingest_document resumes with the upload, up to the count of delete_file.
IngestPrepare(t, docs, oks) ==
  /\ task[t].kind = "sync"
  /\ task[t].pc = "reading"
  /\ LoopFree(task[t].proc)
  /\ \E read_ok \in oks, doc \in docs, embed_ok \in oks, count_ok \in oks :
       IF SyncPrepareError(read_ok, doc, embed_ok) # 0 \/ ~count_ok
       THEN task' = [task EXCEPT ![t] = Idle]
       ELSE task' = [task EXCEPT ![t].pc = "counted", ![t].doc = doc,
                       ![t].count_before = IndexCount(index, FileFilter(task[t].key))]
  /\ index' = IndexWhilePreparing(index, task[t].key)
  /\ UNCHANGED <<processing_status_store, deleted, reply, settled>>

\* delete_file called by an ingestion: the delete call (after its count); its
\* return value is not used.
DeleteOldVectors(t, oks) ==
  /\ task[t].kind \in IngestKinds
  /\ task[t].pc = "counted"
  /\ \E ok \in oks :
       IF ok
       THEN /\ index' = IndexDelete(index, FileFilter(task[t].key))
            /\ task' = TasksAfter(t, [task[t] EXCEPT !.pc = "deleted",
                                                        !.count_before = 0], index')
            /\ settled' = SettledAfter(index', task[t].key :> settled[task[t].key])
            /\ UNCHANGED processing_status_store
       ELSE /\ processing_status_store' = StatusOnFailure(task[t], "delete failed")
            /\ task' = [task EXCEPT ![t] = Idle]
            /\ UNCHANGED <<index, settled>>
  /\ UNCHANGED <<deleted, reply>>

\* store_chunks called by an ingestion, and the end of the handler.
StoreChunks(t, oks) ==
  /\ task[t].kind \in IngestKinds
  /\ task[t].pc = "deleted"
  /\ \E ok \in oks :
       LET f == task[t].key
           payloads == StorePayloads(task[t].room_id, f, task[t].doc.chunks)
       IN IF ok
          THEN /\ index' = IndexUpsert(index, payloads)
               /\ processing_status_store' = StatusOnSuccess(task[t], Len(payloads))
               /\ task' = TasksAfter(t, Idle, index')
               /\ settled' = SettledAfter(index',
                    f :> IF task[t].overlapped THEN NoCount
                         ELSE [count |-> IndexCount(index', FileFilter(f)),
                               doc |-> task[t].doc.name,
                               prev |-> IF settled[f].doc = task[t].doc.name
                                        THEN settled[f].count ELSE -1])
          ELSE /\ processing_status_store' = StatusOnFailure(task[t], "upsert failed")
               /\ task' = [task EXCEPT ![t] = Idle]
               /\ settled' = [settled EXCEPT ![f] = NoCount]
               /\ UNCHANGED index
  /\ UNCHANGED <<deleted, reply>>

(* --------------------------- delete actions --------------------------- *)

DeleteKeys(kind) ==
  CASE kind = "delfile" -> Files [] kind = "delroom" -> Rooms [] OTHER -> Convs

\* The response of a delete route: vectors_deleted is the count_before the
\* store method returned; HTTP 500 when the method raised.
DeleteResponseOfNone(rec) ==
  [kind |-> rec.kind, key |-> rec.key, vectors_deleted |-> 0, overlapped |-> rec.overlapped]
DeleteResponse(rec) ==
  [kind |-> rec.kind, key |-> rec.key, vectors_deleted |-> rec.count_before,
   overlapped |-> rec.overlapped]
DeleteError(rec) ==
  [kind |-> rec.kind, key |-> rec.key, vectors_deleted |-> NullCount,
   overlapped |-> rec.overlapped]

\* DELETE /ingest/{file_id}, /ingest/room/{room_id}, /vectors/conversation/{id}:
\* the count of delete_file, delete_room, delete_conversation_vectors.
\* delete_conversation_vectors returns 0 without a delete call when it counted
\* nothing.
DeleteCount(t, p, kind, key, oks) ==
  /\ task[t] = Idle
  /\ LoopFree(p)
  /\ \E ok \in oks :
       LET rec == [Idle EXCEPT !.kind = kind, !.proc = p, !.key = key, !.pc = "counted"]
           n == IndexCount(index, TaskFilter(rec))
       IN IF ~ok
          THEN /\ deleted' = DeleteError(rec)
               /\ UNCHANGED task
          ELSE IF kind = "delconv" /\ ~(n > 0)
          THEN /\ deleted' = DeleteResponse([rec EXCEPT !.count_before = n])
               /\ UNCHANGED task
          ELSE /\ task' = [task EXCEPT ![t] = [rec EXCEPT !.count_before = n]]
               /\ UNCHANGED deleted
  /\ UNCHANGED <<index, processing_status_store, reply, settled>>

\* The delete call of delete_file, delete_room, delete_conversation_vectors,
\* and the return of count_before.
DeleteByFilter(t, oks) ==
  /\ task[t].kind \in DeleteKinds
  /\ task[t].pc = "counted"
  /\ \E ok \in oks :
       /\ index' = IF ok THEN IndexDelete(index, TaskFilter(task[t])) ELSE index
       /\ deleted' = IF ok THEN DeleteResponse(task[t]) ELSE DeleteError(task[t])
       /\ task' = TasksAfter(t, Idle, index')
       /\ settled' = SettledAfter(index', NoOwn)
  /\ UNCHANGED <<processing_status_store, reply>>

(* --------------------------- specifications --------------------------- *)

Init ==
  /\ index = << >>
  /\ processing_status_store = [f \in Files |-> NoRecord]
  /\ task = [t \in Tasks |-> Idle]
  /\ deleted = NoResponse
  /\ reply = NoReply
  /\ settled = [f \in Files |-> NoCount]

\* The ingestion handlers, for requests on the files fs in the workers ps.
IngestNext(ps, fs, rs, docs, oks) ==
  \/ \E t \in Tasks, p \in ps, f \in fs, r \in rs : IngestFromS3(t, p, f, r)
  \/ \E t \in Tasks : ProcessStart(t)
  \/ \E t \in Tasks : ProcessPrepare(t, docs, oks)
  \/ \E t \in Tasks, p \in ps, f \in fs, r \in rs : IngestDocument(t, p, f, r)
  \/ \E t \in Tasks : IngestPrepare(t, docs, oks)
  \/ \E t \in Tasks : DeleteOldVectors(t, oks)
  \/ \E t \in Tasks : StoreChunks(t, oks)

\* Ingestions of one file_id, in two workers.
Next == IngestNext(Procs, {"f1"}, {"r1"}, Docs, BOOLEAN)

Spec == Init /\ [][Next]_vars

(* ------------------------- ingestion properties ----------------------- *)

Status(rec) == rec.status

AllIdle == \A t \in Tasks : task[t] = Idle

\* The step ends the run of task t with a store_chunks that returned.
Stored(t) ==
  /\ task[t].kind \in IngestKinds
  /\ task[t].pc = "deleted"
  /\ task'[t] = Idle
  /\ index' # index

\* C1: when an ingestion of file_id F with a document runs to completion and
\* then a second ingestion of F with the same document runs to completion,
\* with no other operation on F in between or overlapping, the number of
\* vectors stored for F after the second run equals the number after the first.
ReingestSameCount ==
  \A f \in Files : settled[f].prev # -1 => settled[f].count = settled[f].prev

\* C1: document A (3 chunks) was ingested twice in sequence as f1; 3 vectors.
ReingestedTwice ==
  /\ settled["f1"].doc = "A"
  /\ settled["f1"].prev = 3
  /\ IndexCount(index, FileFilter("f1")) = 3

\* The number of points of file_id f with chunk_index i.
ChunkCopies(idx, f, i) ==
  IndexCount(idx, FileFilter(f) \cup {MatchValue("chunk_index", i)})

ChunkIndexes(idx) == {e.chunk_index : e \in DOMAIN idx}

\* C2 as stated: once every run has finished, whatever their interleaving, no
\* chunk_index of a file_id is stored twice.
NeverDuplicatesChunks ==
  AllIdle => \A f \in Files : \A i \in ChunkIndexes(index) : ChunkCopies(index, f, i) <= 1

\* C2 amended: a run of file_id F that no other run of F overlaps leaves, when
\* its store_chunks returns, exactly its own chunks for F, each once.
AloneNeverDuplicates ==
  [][\A t \in Tasks :
       (Stored(t) /\ ~task[t].overlapped) =>
         LET f == task[t].key
             own == StorePayloads(task[t].room_id, f, task[t].doc.chunks)
         IN /\ DOMAIN Restrict(index', FileFilter(f)) = Range(own)
            /\ \A i \in ChunkIndexes(index') : ChunkCopies(index', f, i) <= 1
            /\ IndexCount(index', FileFilter(f)) = Len(own)]_vars

\* C2: document B (4 chunks) was ingested twice in sequence as f1; 4 vectors,
\* chunk_index 0..3 once each.
ReplacedNotAppended ==
  /\ AllIdle
  /\ settled["f1"].doc = "B"
  /\ settled["f1"].prev = 4
  /\ \A i \in 0..3 : ChunkCopies(index, "f1", i) = 1

\* The background runs of file_id f in the observed worker.
Runs(f) == {t \in Tasks : task[t].kind = "s3" /\ task[t].proc = Local /\ task[t].key = f}

\* C3: for a background submission of a file_id that no other submission of
\* the file_id overlaps, the status record goes pending, processing, then one
\* of completed and failed, with no other transition; once completed or failed
\* it changes only when the file_id is submitted again.
StatusStateMachine ==
  [][\A f \in Files :
       processing_status_store'[f] # processing_status_store[f] =>
         LET a == Status(processing_status_store[f])
             b == Status(processing_status_store'[f])
         IN \/ \E t \in Tasks : task[t].key = f /\ (task[t].overlapped \/ task'[t].overlapped)
            \/ /\ Runs(f) = {}
               /\ a \in {"none", "completed", "failed"}
               /\ processing_status_store'[f] = Pending
            \/ /\ Runs(f) # {}
               /\ \/ a = "pending" /\ b = "processing"
                  \/ a = "processing" /\ b \in {"completed", "failed"}]_vars

\* C3: a background run of f1 ended completed with 3 chunks, none in flight.
RunCompleted ==
  /\ AllIdle
  /\ processing_status_store["f1"] = Completed(3)

\* C5: a background run that ends otherwise than by a store_chunks that
\* returned leaves the status record of its file_id failed, with an error
\* message and chunks_created null.
FailureIsRecorded ==
  [][\A t \in Tasks :
       ( /\ task[t].kind = "s3"
         /\ task[t].proc = Local
         /\ task'[t] = Idle
         /\ ~Stored(t) ) =>
         LET rec == processing_status_store'[task[t].key]
         IN /\ Status(rec) = "failed"
            /\ rec.error # Null
            /\ rec.chunks_created = NullCount]_vars

\* C5: the store of the new vectors failed in a background run of f1.
StoreFailureRecorded ==
  /\ processing_status_store["f1"] = Failed("upsert failed")
  /\ AllIdle

(* ------------------------ background job liveness --------------------- *)

\* The documents and call outcomes of the liveness specification: a document
\* that is ingested, one whose extraction fails, calls that return or raise.
LiveDocs == {d \in Docs : d.name \in {"A", "broken"}}

\* Background ingestions of one file_id, in two workers.
LiveNext ==
  \/ \E t \in Tasks, p \in Procs : IngestFromS3(t, p, "f1", "r1")
  \/ \E t \in Tasks : ProcessStart(t)
  \/ \E t \in Tasks : ProcessPrepare(t, LiveDocs, BOOLEAN)
  \/ \E t \in Tasks : DeleteOldVectors(t, BOOLEAN)
  \/ \E t \in Tasks : StoreChunks(t, BOOLEAN)

\* BackgroundTasks runs every scheduled worker, and the event loop resumes a
\* handler that is ready after finitely many others (its ready queue is FIFO);
\* every external call returns or raises.  Hence strong fairness of each step
\* of each scheduled worker: a step that is enabled again and again is taken.
LiveSpec ==
  /\ Init
  /\ [][LiveNext]_vars
  /\ \A t \in Tasks :
       /\ SF_vars(ProcessStart(t))
       /\ SF_vars(ProcessPrepare(t, LiveDocs, BOOLEAN))
       /\ SF_vars(DeleteOldVectors(t, BOOLEAN))
       /\ SF_vars(StoreChunks(t, BOOLEAN))

\* C4: the status record of a submitted file_id does not stay pending or
\* processing forever: it eventually becomes completed or failed.
JobEventuallyEnds ==
  \A f \in Files :
    (Status(processing_status_store[f]) \in {"pending", "processing"})
      ~> (Status(processing_status_store[f]) \in {"completed", "failed"})

\* C4: a job of f1 is accepted (pending) and its worker is scheduled.
JobAccepted ==
  /\ processing_status_store["f1"] = Pending
  /\ \E t \in Tasks : task[t].proc = Local /\ task[t].pc = "queued"
  /\ \A t \in Tasks : task[t].pc \in {"idle", "queued"}

(* ------------------- ingestions of different file_ids ----------------- *)

\* The documents of the two-file specification.
CrossDocs == {d \in Docs : d.name \in {"A", "broken"}}

\* Background ingestions of two file_ids, in two workers.
CrossNext ==
  \/ \E t \in Tasks, p \in Procs, f \in Files : IngestFromS3(t, p, f, "r1")
  \/ \E t \in Tasks : ProcessStart(t)
  \/ \E t \in Tasks : ProcessPrepare(t, CrossDocs, {TRUE})
  \/ \E t \in Tasks : DeleteOldVectors(t, BOOLEAN)
  \/ \E t \in Tasks : StoreChunks(t, BOOLEAN)

CrossSpec == Init /\ [][CrossNext]_vars

\* The step is a step of the handler of slot t, for the file_id KeyOf(t).
StepOf(t) == [task'[t] EXCEPT !.overlapped = task[t].overlapped] # task[t]
KeyOf(t) == IF task[t] = Idle THEN task'[t].key ELSE task[t].key

\* C6: a step of an ingestion of one file_id leaves the status record and the
\* vectors of every other file_id as they are, and a run that no run of its
\* own file_id overlaps ends as it does alone, whatever runs of other file_ids
\* do meanwhile: its own chunks once each and completed with their number, or
\* failed (and no vector of the file_id when the store failed).
DifferentFilesNeverInterfere ==
  [][\A t \in Tasks :
       StepOf(t) =>
         /\ \A f \in Files \ {KeyOf(t)} :
              /\ processing_status_store'[f] = processing_status_store[f]
              /\ Restrict(index', FileFilter(f)) = Restrict(index, FileFilter(f))
         /\ (task[t] # Idle /\ task'[t] = Idle /\ ~task[t].overlapped) =>
              LET f == task[t].key
                  own == StorePayloads(task[t].room_id, f, task[t].doc.chunks)
                  rec == processing_status_store'[f]
              IN IF Stored(t)
                 THEN /\ Restrict(index', FileFilter(f)) = [e \in Range(own) |-> 1]
                      /\ task[t].proc = Local => rec = Completed(Len(own))
                 ELSE /\ task[t].proc = Local => Status(rec) = "failed"
                      /\ task[t].pc = "deleted" => IndexCount(index', FileFilter(f)) = 0
                      /\ task[t].pc # "deleted" => index' = index]_vars

\* C6: runs of f1 and of f2 interleave: the run of f1 has counted the 3 vectors
\* of an earlier run and is about to delete them, the run of f2 has deleted
\* its old vectors and not yet stored the new ones.
RunsInterleave ==
  \E t, u \in Tasks :
    /\ task[t].key = "f1" /\ task[t].pc = "counted" /\ task[t].count_before = 3
    /\ task[u].key = "f2" /\ task[u].pc = "deleted"
    /\ processing_status_store["f1"] = Processing
    /\ ~task[t].overlapped /\ ~task[u].overlapped

(* ------------------------------- search ------------------------------- *)

\* The texts of the queries, and the cosine similarity (in hundredths) of the
\* embedding of a query and the embedding of a chunk content.
Queries == {"q1", "q2"}
Similarity(q, content) ==
  IF q = "q1" THEN <<90, 40, 20, 80, 30, 10, 29>>[content] ELSE 10

\* client.search(..., score_threshold=min_score): the points of the filter
\* whose score is not below the threshold.
SearchHitsNoThreshold(idx, filter, q, min_score) ==
  {pt \in Points(idx) : Matches(pt[1], filter)}
SearchHits(idx, filter, q, min_score) ==
  {pt \in Points(idx) : Matches(pt[1], filter) /\ Similarity(q, pt[1].content) >= min_score}

\* client.search(..., limit=n): the n best hits, best first; points of equal
\* score come in any order.
RECURSIVE Ranked(_, _, _)
Ranked(hits, q, n) ==
  IF n = 0 \/ hits = {} THEN {<< >>}
  ELSE LET best == {h \in hits : \A g \in hits :
                      Similarity(q, g[1].content) <= Similarity(q, h[1].content)}
       IN UNION {{<<h>> \o s : s \in Ranked(hits \ {h}, q, n - 1)} : h \in best}

\* VectorStoreService.search: the filter.
SearchFilterAnyRoom(room_ids, file_id) ==
  IF file_id # Null THEN {MatchValue("file_id", file_id)} ELSE {}
SearchFilter(room_ids, file_id) ==
  {MatchAny("room_id", room_ids)}
    \cup (IF file_id # Null THEN {MatchValue("file_id", file_id)} ELSE {})

\* VectorStoreService.search_by_conversation: the filter.
ConversationSearchFilter(conversation_id) ==
  {MatchValue("conversation_id", conversation_id), MatchValue("is_temporary", "True")}

\* The formatted result of a point found by search / search_by_conversation.
FormatResult(pt, q) ==
  [id |-> pt, score |-> Similarity(q, pt[1].content), content |-> pt[1].content,
   file_id |-> pt[1].file_id, room_id |-> pt[1].room_id,
   chunk_index |-> pt[1].chunk_index, document_type |-> Missing]
FormatAttachmentResult(pt, q) ==
  [id |-> pt, score |-> Similarity(q, pt[1].content), content |-> pt[1].content,
   file_id |-> pt[1].conversation_id, room_id |-> "",
   chunk_index |-> pt[1].chunk_index, document_type |-> "attachment"]

\* The lists VectorStoreService.search may return.
Search(idx, q, room_ids, file_id, top_k, min_score) ==
  {[i \in DOMAIN s |-> FormatResult(s[i], q)] :
     s \in Ranked(SearchHits(idx, SearchFilter(room_ids, file_id), q, min_score), q, top_k)}

\* The lists VectorStoreService.search_by_conversation may return.
SearchByConversation(idx, q, conversation_id, top_k, min_score) ==
  {[i \in DOMAIN s |-> FormatAttachmentResult(s[i], q)] :
     s \in Ranked(SearchHits(idx, ConversationSearchFilter(conversation_id), q, min_score),
                  q, top_k)}

(* ------------------------------ retrieval ----------------------------- *)

Min(a, b) == IF a < b THEN a ELSE b

\* seq[:k]
Truncate(seq, k) == SubSeq(seq, 1, Min(k, Len(seq)))

\* list.sort(key=lambda x: x['score'], reverse=True): descending by score,
\* results of equal score keep their order (the sort is stable).
RECURSIVE SortByScore(_)
SortByScore(seq) ==
  IF seq = << >> THEN << >>
  ELSE LET i == CHOOSE i \in DOMAIN seq :
                  \A j \in DOMAIN seq :
                    \/ seq[j].score < seq[i].score
                    \/ seq[j].score = seq[i].score /\ i <= j
       IN <<seq[i]>> \o SortByScore([j \in 1..(Len(seq) - 1) |->
                                       IF j < i THEN seq[j] ELSE seq[j + 1]])

\* RetrievalService.query, dual retrieval: merge, sort, take the top k.
MergeUnsorted(room_results, attachment_results, k) ==
  Truncate(room_results \o attachment_results, k)
MergeResults(room_results, attachment_results, k) ==
  Truncate(SortByScore(room_results \o attachment_results), k)

\* k = top_k or settings.top_k_results (0 stands for None; both are falsy).
TopK(top_k) == IF top_k = 0 THEN TopKResults ELSE top_k

\* The characters of a chunk content, and content[:500].
ContentChars(content) == IF content = 7 THEN 512 ELSE 100 * content
Preview(content) == [of |-> content, chars |-> Min(ContentChars(content), PreviewLength)]

\* The SourceChunk of a search result.
SourceChunk(result) ==
  [file_id |-> result.file_id, chunk_index |-> result.chunk_index,
   content |-> Preview(result.content), relevance_score |-> result.score]

NoInformationAnswer == "I couldn't find any relevant information"

\* The parameters of LLMService.generate_answer and of
\* LLMService.generate_answer_stream (self apart), and the keyword arguments
\* query() and query_stream() pass to them.
GenerateAnswerParams == {"query", "context_chunks"}
GenerateAnswerStreamParams == {"query", "context_chunks"}
QueryGenerateKwargs == {"query", "context_chunks", "conversation_history", "conversation_summary", "attachment_context"}
QueryStreamGenerateKwargs == {"query", "context_chunks", "conversation_history", "conversation_summary", "attachment_context"}

\* A call by keyword binds when the function has a parameter of every
\* keyword; a call that does not bind raises TypeError before the body runs.
CallBindsAlways(kwargs, params) == TRUE
CallBinds(kwargs, params) == kwargs \subseteq params

\* The calls of llm_service.generate_answer query() makes for a result set.
AlwaysGenerates(search_results) == 1
GeneratorCalls(search_results) == IF search_results = << >> THEN 0 ELSE 1

\* The outcome of query(): the result lists (of the searches, and the merged
\* one) and the QueryResponse, or the exception of the generator.
QueryReply(dual, k, room_results, attachment_results, chunks_created, generate_ok) ==
  LET search_results == IF dual THEN MergeResults(room_results, attachment_results, k)
                        ELSE room_results
      calls == GeneratorCalls(search_results)
      sources == [i \in DOMAIN search_results |-> SourceChunk(search_results[i])]
      trace == [dual |-> dual, k |-> k, room_results |-> room_results,
                attachment_results |-> attachment_results,
                search_results |-> search_results, generator_calls |-> calls,
                chunks_created_for_attachment |-> chunks_created]
  IN IF calls = 0
     THEN [kind |-> "response", answer |-> NoInformationAnswer, sources |-> << >>,
           chunks_retrieved |-> 0, fault |-> "none",
           trace |-> [trace EXCEPT !.chunks_created_for_attachment = 0]]
     ELSE IF ~generate_ok
     THEN [kind |-> "error", fault |-> "none", trace |-> trace]
     ELSE [kind |-> "response", answer |-> "generated", sources |-> sources,
           chunks_retrieved |-> Len(sources), fault |-> "none", trace |-> trace]

\* attachment_result of the query route when the request has no attachment.
NoAttachment == [flow |-> "none", chunks |-> << >>]

\* The external call of query() or query_stream() that raises, if it is
\* reached; query() may also reach search_by_conversation.
Fails == {"none", "embed", "search", "generate"}
QueryFails == Fails \cup {"search_by_conversation"}

\* The search a request makes raise when it is reached, if it is a search.
SearchFault(fail) == IF fail \in {"search", "search_by_conversation"} THEN fail ELSE "none"

\* The search step of query() raises: the room search does, or the
\* conversation search of a dual retrieval does.
SearchRaisesInRoomOnly(dual, fail) == fail = "search"
SearchRaises(dual, fail) == fail = "search" \/ (dual /\ fail = "search_by_conversation")

\* RetrievalService.query in worker p.
Query(p, q, room_ids, context_file_id, top_k, conversation_id, has_vector_attachment, attachment_result, fail) ==
  LET k == TopK(top_k)
      min_score == MinRelevanceScore
      stores == attachment_result.flow = "vector_storage" /\ attachment_result.chunks # << >>
      points == [i \in DOMAIN attachment_result.chunks |->
                   TempPayload(conversation_id, attachment_result.chunks, i)]
      idx == IF stores THEN IndexUpsert(index, points) ELSE index
      dual == has_vector_attachment /\ conversation_id # Null
      chunks_created == IF stores THEN Len(points) ELSE 0
      raised(room_results) ==
        [kind |-> "error",
         trace |-> [dual |-> dual, k |-> k, room_results |-> room_results,
                    attachment_results |-> << >>, search_results |-> << >>,
                    generator_calls |-> 0,
                    chunks_created_for_attachment |-> chunks_created],
         fault |-> SearchFault(fail)]
  IN /\ LoopFree(p)
     /\ stores => IndexCount(index, {MatchValue("is_temporary", "True")}) + Len(points)
                    <= MaxTempVectors
     /\ index' = idx
     /\ task' = TasksAfter(0, Idle, idx)
     /\ settled' = SettledAfter(idx, NoOwn)
     /\ IF fail \in {"embed", "search"}
        THEN reply' = raised(<< >>)
        ELSE \E room_results \in Search(idx, q, room_ids, context_file_id, k, min_score) :
               IF SearchRaises(dual, fail)
               THEN reply' = raised(room_results)
               ELSE \E attachment_results \in
                         (IF dual /\ fail # "search_by_conversation"
                          THEN SearchByConversation(idx, q, conversation_id, k, min_score)
                          ELSE {<< >>}) :
                      reply' = [QueryReply(dual, k, room_results, attachment_results,
                                           chunks_created,
                                           /\ CallBinds(QueryGenerateKwargs, GenerateAnswerParams)
                                           /\ fail # "generate")
                                EXCEPT !.fault = SearchFault(fail)]
     /\ UNCHANGED <<processing_status_store, deleted>>

(* ------------------------------ streaming ----------------------------- *)

\* An event of query_stream.
Event(event, data) == [event |-> event, data |-> data]

NoInformationStreamAnswer == "I couldn't find any relevant information in your course materials."
GenerationErrorText == "Error generating response"

\* The texts LLMService.generate_answer_stream yields once called: the
\* fragments of the model, and, when the model raises after them, the text
\* of the error as one more fragment; the exception does not leave it.
GenerateAnswerStream(fragments, raises) ==
  IF raises THEN fragments \o <<GenerationErrorText>> ELSE fragments

\* An entry of the sources event of query_stream (it has no content).
StreamSource(result) ==
  [file_id |-> result.file_id, chunk_index |-> result.chunk_index,
   relevance_score |-> result.score]

\* A step of a query_stream run: an event it yields, or a call it makes.
Yield(event, data) == [step |-> "yield", event |-> Event(event, data)]
Call(callee) == [step |-> "call", callee |-> callee]

\* The generation step of query_stream: the call of the generator, then a
\* chunk event per text of the generator and the complete event, or the error
\* event of the except clause when the call raises.
CompleteAfterError(binds, texts, count) == <<Call("generate_answer_stream"), Yield("complete", [chunks_retrieved |-> count]), Yield("error", [error |-> "Exception"])>>
SourcesAfterGeneration(binds, texts, count) == <<Call("generate_answer_stream"), Yield("sources", [sources |-> << >>, count |-> count]), Yield("error", [error |-> "TypeError"])>>
GenerationSteps(binds, texts, count) ==
  <<Call("generate_answer_stream")>>
    \o (IF ~binds
        THEN <<Yield("error", [error |-> "TypeError"])>>
        ELSE [i \in DOMAIN texts |-> Yield("chunk", [text |-> texts[i]])]
               \o <<Yield("complete", [chunks_retrieved |-> count])>>)

\* The steps of RetrievalService.query_stream for the result of its search;
\* fail is the external call that raises, fragments the texts of the model.
StreamSteps(search_results, fail, fragments) ==
  LET sources == [i \in DOMAIN search_results |-> StreamSource(search_results[i])]
      begin == <<Yield("status", [status |-> "searching"]), Call("embed_query")>>
  IN IF fail = "embed"
     THEN begin \o <<Yield("error", [error |-> fail])>>
     ELSE IF fail = "search"
     THEN begin \o <<Call("search"), Yield("error", [error |-> fail])>>
     ELSE IF search_results = << >>
     THEN begin \o <<Call("search"),
                      Yield("complete", [answer |-> NoInformationStreamAnswer,
                                         sources |-> << >>, chunks_retrieved |-> 0])>>
     ELSE begin \o <<Call("search"),
                      Yield("sources", [sources |-> sources, count |-> Len(sources)]),
                      Yield("status", [status |-> "generating"])>>
            \o GenerationSteps(CallBinds(QueryStreamGenerateKwargs, GenerateAnswerStreamParams),
                               GenerateAnswerStream(fragments, fail = "generate"),
                               Len(sources))

\* The events a run of these steps yields, in order.
StreamEvents(steps) ==
  LET yields == SelectSeq(steps, LAMBDA s : s.step = "yield")
  IN [i \in DOMAIN yields |-> yields[i].event]

\* The phase of a query_stream run that raised, if one did: the embedding,
\* the search, or the generation (the call of the generator, or the model
\* inside it).
StreamFailure(search_results, fail) ==
  IF fail \in {"embed", "search"} THEN fail
  ELSE IF search_results = << >> THEN "none"
  ELSE IF ~CallBinds(QueryStreamGenerateKwargs, GenerateAnswerStreamParams) THEN "generate"
  ELSE IF fail = "generate" THEN "generate" ELSE "none"

\* event_generator of the /query/stream route: every event of query_stream
\* with its data encoded by json.dumps.
JsonDumps(data) == [json |-> data]
EventGenerator(events) ==
  [i \in DOMAIN events |-> [event |-> events[i].event, data |-> JsonDumps(events[i].data)]]

\* The result sets the search step of query() may produce (the merged list of
\* a dual retrieval, otherwise the list of the room search), and those the
\* search step of query_stream() may produce, for a request over an index.
QuerySearchResults(idx, q, room_ids, context_file_id, top_k, conversation_id, has_vector_attachment) ==
  LET k == TopK(top_k)
      rooms == Search(idx, q, room_ids, context_file_id, k, MinRelevanceScore)
  IN IF has_vector_attachment /\ conversation_id # Null
     THEN {MergeResults(room_results, attachment_results, k) :
             room_results \in rooms,
             attachment_results \in
               SearchByConversation(idx, q, conversation_id, k, MinRelevanceScore)}
     ELSE rooms
StreamSearchResults(idx, q, room_ids, context_file_id, top_k, conversation_id, has_vector_attachment) ==
  Search(idx, q, room_ids, context_file_id, TopK(top_k), MinRelevanceScore)

\* error_stream of the /query/stream route.
ErrorStream == <<[event |-> "error", data |-> JsonDumps([error |-> "At least one room_id is required"])]>>

\* The /query/stream route in worker p: error_stream for a request without
\* rooms, otherwise event_generator over RetrievalService.query_stream.
QueryStream(p, q, room_ids, context_file_id, top_k, conversation_id, has_vector_attachment, fail, fragments) ==
  LET k == TopK(top_k)
  IN /\ LoopFree(p)
     /\ IF room_ids = {}
        THEN reply' = [kind |-> "stream", steps |-> << >>, events |-> << >>,
                       sse |-> ErrorStream,
                       trace |-> [dual |-> FALSE, k |-> k, room_results |-> << >>,
                                  attachment_results |-> << >>, search_results |-> << >>,
                                  generator_calls |-> 0,
                                  chunks_created_for_attachment |-> 0,
                                  called |-> FALSE, generated |-> << >>,
                                  failure |-> "none"]]
        ELSE \E found \in StreamSearchResults(index, q, room_ids, context_file_id, top_k,
                                               conversation_id, has_vector_attachment) :
               LET search_results == IF fail \in {"embed", "search"} THEN << >> ELSE found
                   generated ==
                     IF /\ search_results # << >>
                        /\ CallBinds(QueryStreamGenerateKwargs, GenerateAnswerStreamParams)
                     THEN GenerateAnswerStream(fragments, fail = "generate") ELSE << >>
                   steps == StreamSteps(search_results, fail, fragments)
                   events == StreamEvents(steps)
               IN reply' = [kind |-> "stream", steps |-> steps, events |-> events,
                            sse |-> EventGenerator(events),
                            trace |-> [dual |-> FALSE, k |-> k,
                                       room_results |-> search_results,
                                       attachment_results |-> << >>,
                                       search_results |-> search_results,
                                       generator_calls |-> GeneratorCalls(search_results),
                                       chunks_created_for_attachment |-> 0,
                                       called |-> TRUE, generated |-> generated,
                                       failure |-> StreamFailure(search_results, fail)]]
     /\ UNCHANGED <<index, processing_status_store, task, deleted, settled>>

\* The requests of the retrieval specification: the scope, the top_k, the
\* conversation and attachment of a query.
QueryScopes == {[room_ids |-> {"r1"}, context_file_id |-> Null],
                [room_ids |-> {"r1", "r2"}, context_file_id |-> Null],
                [room_ids |-> {"r1", "r2"}, context_file_id |-> "f1"]}
QueryUploads == {[file_id |-> "f1", room_id |-> "r1"], [file_id |-> "f2", room_id |-> "r2"]}
QueryDocs == {d \in Docs : d.name = "A"}
QueryAttachments == {NoAttachment, [flow |-> "vector_storage", chunks |-> <<4, 5, 6, 7>>]}
StreamScopes == QueryScopes \cup {[room_ids |-> {}, context_file_id |-> Null]}
StreamFragments == {<< >>, <<"t1", "t2">>}

\* Queries of one worker, over rooms filled by uploads.
QueryNext ==
  \/ \E to \in QueryUploads : IngestDocument(1, Local, to.file_id, to.room_id)
  \/ IngestPrepare(1, QueryDocs, {TRUE})
  \/ DeleteOldVectors(1, {TRUE})
  \/ StoreChunks(1, {TRUE})
  \/ \E q \in Queries, scope \in QueryScopes, top_k \in {0, 3},
        conversation_id \in {Null, "c1"}, has_vector_attachment \in BOOLEAN,
        attachment_result \in QueryAttachments, fail \in Fails :
       Query(Local, q, scope.room_ids, scope.context_file_id, top_k, conversation_id,
             has_vector_attachment, attachment_result, fail)
  \/ \E q \in Queries, scope \in StreamScopes, top_k \in {0, 3}, fail \in Fails,
        fragments \in StreamFragments :
       QueryStream(Local, q, scope.room_ids, scope.context_file_id, top_k, "c1", TRUE,
                   fail, fragments)

QuerySpec == Init /\ [][QueryNext]_vars

\* The requests of queries whose searches may raise, over two conversations
\* with attachments of two chunks, and the query() of such a request.
SearchFaultRequests ==
  [scope : QueryScopes, top_k : {0}, conversation_id : {"c1", "c2"},
   has_vector_attachment : BOOLEAN,
   attachment_result : {NoAttachment, [flow |-> "vector_storage", chunks |-> <<4, 5>>]},
   fail : QueryFails \ {"embed", "generate"}]
QueryRequest(request) ==
  Query(Local, "q1", request.scope.room_ids, request.scope.context_file_id, request.top_k,
        request.conversation_id, request.has_vector_attachment, request.attachment_result,
        request.fail)

\* Queries of one worker whose searches may raise, over rooms filled by
\* uploads.
SearchFaultNext ==
  \/ \E to \in QueryUploads : IngestDocument(1, Local, to.file_id, to.room_id)
  \/ IngestPrepare(1, QueryDocs, {TRUE})
  \/ DeleteOldVectors(1, {TRUE})
  \/ StoreChunks(1, {TRUE})
  \/ \E request \in SearchFaultRequests : QueryRequest(request)

SearchFaultSpec == Init /\ [][SearchFaultNext]_vars

(* ------------------------- retrieval properties ----------------------- *)

Scores(results) == [i \in DOMAIN results |-> results[i].score]

\* C7: no result of a search call of a query (the room search, the
\* conversation search) and no result of the merged list has a score below
\* the minimum relevance score: such records are left out.
RelevanceGate ==
  reply.kind # "none" =>
    \A results \in {reply.trace.room_results, reply.trace.attachment_results,
                    reply.trace.search_results} :
      \A i \in DOMAIN results : results[i].score >= MinRelevanceScore

\* C7: room r1 holds 3 chunks scoring 0.9, 0.4 and 0.2 for the query; with
\* top_k 5 the search returns the first two only.
BelowThresholdLeftOut ==
  /\ reply.kind \in {"response", "error"}
  /\ ~reply.trace.dual
  /\ reply.trace.k = 5
  /\ Scores(reply.trace.search_results) = <<90, 40>>
  /\ IndexCount(index, RoomFilter("r1")) = 3
  /\ IndexCount(index, RoomFilter("r2")) = 0

\* C8: the result set of a dual-source query holds min(top_k, candidates)
\* distinct candidates of the two searches, in non-increasing order of score,
\* and no candidate left out scores higher than one included; room scores
\* [0.9, 0.4] and conversation scores [0.8, 0.3] with top_k 3 give
\* [0.9, 0.8, 0.4].
DualSourceMerge ==
  (reply.kind # "none" /\ reply.trace.dual /\ ~SearchRaises(TRUE, reply.fault)) =>
    LET merged == reply.trace.search_results
        candidates == Range(reply.trace.room_results) \cup Range(reply.trace.attachment_results)
    IN /\ Len(merged) = Min(reply.trace.k, Len(reply.trace.room_results)
                                            + Len(reply.trace.attachment_results))
       /\ Len(merged) <= reply.trace.k
       /\ \A i \in DOMAIN merged : merged[i] \in candidates
       /\ \A i, j \in DOMAIN merged : i < j =>
            merged[i] # merged[j] /\ merged[i].score >= merged[j].score
       /\ \A c \in candidates \ Range(merged) :
            \A i \in DOMAIN merged : c.score <= merged[i].score
       /\ ( /\ Scores(reply.trace.room_results) = <<90, 40>>
            /\ Scores(reply.trace.attachment_results) = <<80, 30>>
            /\ reply.trace.k = 3 ) => Scores(merged) = <<90, 80, 40>>

\* C8: the example: room scores [0.9, 0.4], conversation scores [0.8, 0.3],
\* top_k 3, merged [0.9, 0.8, 0.4] with the attachment chunk second.
MergedExample ==
  /\ reply.kind \in {"response", "error"}
  /\ reply.trace.dual
  /\ reply.trace.k = 3
  /\ Scores(reply.trace.room_results) = <<90, 40>>
  /\ Scores(reply.trace.attachment_results) = <<80, 30>>
  /\ Scores(reply.trace.search_results) = <<90, 80, 40>>
  /\ reply.trace.search_results[2].document_type = "attachment"

\* C9: a query whose result set is empty answers the fixed no-information
\* text with no sources and chunks_retrieved 0 and calls the generator zero
\* times; the generator is called only for a non-empty result set.
EmptyResultShortCircuit ==
  reply.kind # "none" =>
    /\ (reply.kind = "response" /\ reply.trace.search_results = << >>) =>
         /\ reply.answer = NoInformationAnswer
         /\ reply.sources = << >>
         /\ reply.chunks_retrieved = 0
         /\ reply.trace.generator_calls = 0
    /\ reply.trace.generator_calls # 0 => reply.trace.search_results # << >>
    /\ reply.trace.search_results # << >> => reply.trace.generator_calls = 1
    /\ (reply.kind = "response" /\ reply.trace.search_results # << >>) =>
         reply.answer # NoInformationAnswer

\* C9: a dual-source query over a room and a conversation that hold vectors,
\* none of them relevant: the merged result set is empty.
NothingRelevant ==
  /\ reply.kind = "response"
  /\ reply.trace.dual
  /\ reply.trace.search_results = << >>
  /\ reply.chunks_retrieved = 0
  /\ IndexCount(index, RoomFilter("r1")) = 3
  /\ IndexCount(index, ConversationSearchFilter("c1")) = 4

(* ------------------------- streaming properties ----------------------- *)

Terminal(e) == e.event \in {"complete", "error"}

\* The sequence has one terminal event, and it is its last event.
OneTerminalLast(events) ==
  /\ events # << >>
  /\ Terminal(events[Len(events)])
  /\ \A i \in 1..(Len(events) - 1) : ~Terminal(events[i])

\* C12: the events of every query_stream run, and the events the
\* /query/stream route sends, hold exactly one terminal event (complete or
\* error) and it is the last event: nothing is emitted after it.
StreamTermination ==
  reply.kind = "stream" =>
    /\ reply.trace.called => OneTerminalLast(reply.events)
    /\ OneTerminalLast(reply.sse)

\* C12: a streaming run that found two sources and ended: four events, the
\* last one terminal, sent by the route as four events.
StreamEnded ==
  /\ reply.kind = "stream"
  /\ reply.trace.called
  /\ Len(reply.trace.search_results) = 2
  /\ Len(reply.events) = 4
  /\ Len(reply.sse) = 4
  /\ Terminal(reply.events[4])

\* The positions of the steps of a run that yield an event of a kind, and
\* of those that call a service.
YieldsOf(steps, event) ==
  {i \in DOMAIN steps : steps[i].step = "yield" /\ steps[i].event.event = event}
CallsOf(steps, callee) ==
  {i \in DOMAIN steps : steps[i].step = "call" /\ steps[i].callee = callee}

\* C13: the events of a query_stream run with a non-empty retrieval are
\* status(searching), one sources event (the sources of the result set),
\* status(generating), the chunk events in the order of the texts of the
\* generator, and the terminal event; no chunk comes before the sources
\* event, which is yielded after the search call and before the call of the
\* generator.
StreamEventOrder ==
  (reply.kind = "stream" /\ reply.trace.search_results # << >>) =>
    LET events == reply.events
        n == Len(events)
        steps == reply.steps
        results == reply.trace.search_results
    IN /\ n >= 4
       /\ events[1] = Event("status", [status |-> "searching"])
       /\ events[2] = Event("sources",
                            [sources |-> [i \in DOMAIN results |-> StreamSource(results[i])],
                             count |-> Len(results)])
       /\ events[3] = Event("status", [status |-> "generating"])
       /\ \A i \in 4..(n - 1) : events[i].event = "chunk"
       /\ [i \in 1..(n - 4) |-> events[i + 3].data.text] = reply.trace.generated
       /\ Terminal(events[n])
       /\ Cardinality(YieldsOf(steps, "sources")) = 1
       /\ \A i \in YieldsOf(steps, "sources") :
            /\ \E j \in CallsOf(steps, "search") : j < i
            /\ \A j \in CallsOf(steps, "generate_answer_stream") : i < j
            /\ \A j \in YieldsOf(steps, "chunk") : i < j

\* C13: a run over room r1 with top_k 5: the sources event holds the two
\* sources scoring 0.9 and 0.4, then status(generating) and the terminal
\* event follow.
SourcesThenGeneration ==
  /\ reply.kind = "stream"
  /\ Scores(reply.trace.search_results) = <<90, 40>>
  /\ reply.events[2].event = "sources"
  /\ reply.events[2].data.count = 2
  /\ reply.events[3].event = "status"
  /\ Terminal(reply.events[4])
  /\ CallsOf(reply.steps, "generate_answer_stream") = {6}

SameRetrievalPipeline ==
  \A q \in Queries, scope \in QueryScopes, top_k \in {0, 3},
     conversation_id \in {Null, "c1"}, has_vector_attachment \in BOOLEAN :
    StreamSearchResults(index, q, scope.room_ids, scope.context_file_id, top_k,
                        conversation_id, has_vector_attachment)
      = QuerySearchResults(index, q, scope.room_ids, scope.context_file_id, top_k,
                           conversation_id, has_vector_attachment)

\* C16: a query that stored the chunks of its attachment as temporary
\* vectors and went on to search ran the conversation search as well, over the
\* index that already holds those chunks.
AttachmentSearchedAtOnce ==
  [][( /\ IndexCount(index', {MatchValue("is_temporary", "True")})
            > IndexCount(index, {MatchValue("is_temporary", "True")})
       /\ reply'.kind \in {"response", "error"}
       /\ ~(reply'.kind = "error" /\ reply'.trace.generator_calls = 0) ) =>
       /\ reply'.trace.dual
       /\ \E q \in Queries, c \in Convs :
            reply'.trace.attachment_results
              \in SearchByConversation(index', q, c, reply'.trace.k, MinRelevanceScore)]_vars

(* ----------------------------- attachments ---------------------------- *)

AttachmentTextSizeThreshold == 80000
AttachmentFileSizeThreshold == 8388608

\* The attachment types of a request; all but the last are supported.
AttachmentTypes == {"IMAGE", "PDF", "DOCX", "PPTX", "TXT", "ZIP"}

\* len of the data URI of an image of n bytes: the prefix
\* "data:image/*;base64," and 4 characters per 3 bytes, padded.
ImageCharCount(n) == 20 + 4 * ((n + 2) \div 3)

\* The result of process_attachment that reports a failure.
AttachmentFailure(error) ==
  [success |-> FALSE, flow |-> Null, error |-> error, char_count |-> 0]

\* DocumentProcessor.process_attachment: downloaded tells whether the
\* download succeeded, content_length is the number of bytes downloaded,
\* text_length the length of the text extracted from a document (-1 when the
\* extraction fails), file_size the size the request declares.
ProcessAttachment(attachment_type, downloaded, content_length, text_length, file_size, text_threshold, file_size_threshold) ==
  IF ~downloaded THEN AttachmentFailure("download")
  ELSE IF attachment_type # "IMAGE" /\ attachment_type \notin {"PDF", "DOCX", "PPTX", "TXT"}
  THEN AttachmentFailure("unsupported")
  ELSE IF attachment_type # "IMAGE" /\ text_length < 0 THEN AttachmentFailure("extract")
  ELSE LET char_count == IF attachment_type = "IMAGE" THEN ImageCharCount(content_length)
                         ELSE text_length
           use_direct_injection == char_count <= text_threshold /\ file_size <= file_size_threshold
       IN [success |-> TRUE,
           flow |-> IF use_direct_injection THEN "direct_injection" ELSE "vector_storage",
           error |-> Null, char_count |-> char_count]

\* The attachment step of the /query route: process_attachment with the
\* thresholds of the settings and the file size of the request (0 when the
\* request has none).
QueryAttachment(attachment_type, downloaded, content_length, text_length, file_size) ==
  /\ reply' = [kind |-> "attachment",
               request |-> [attachment_type |-> attachment_type, file_size |-> file_size],
               result |-> ProcessAttachment(attachment_type, downloaded, content_length,
                                            text_length, file_size,
                                            AttachmentTextSizeThreshold,
                                            AttachmentFileSizeThreshold)]
  /\ UNCHANGED <<index, processing_status_store, task, deleted, settled>>

\* Text lengths, byte counts and declared sizes around the thresholds.
TextLengths == {-1, 0, AttachmentTextSizeThreshold - 1, AttachmentTextSizeThreshold,
                AttachmentTextSizeThreshold + 1}
ContentLengths == {0, 59985, 59986}
FileSizes == {0, AttachmentFileSizeThreshold - 1, AttachmentFileSizeThreshold,
              AttachmentFileSizeThreshold + 1, 2 * AttachmentFileSizeThreshold}

AttachmentNext ==
  \E attachment_type \in AttachmentTypes, downloaded \in BOOLEAN,
     content_length \in ContentLengths, text_length \in TextLengths, file_size \in FileSizes :
    QueryAttachment(attachment_type, downloaded, content_length, text_length, file_size)

AttachmentSpec == Init /\ [][AttachmentNext]_vars

\* C17: a processed attachment goes to the vector-storage flow exactly when
\* both its character count exceeds the character threshold and its file size
\* exceeds the byte threshold; otherwise it is injected inline.
VectorStorageOnlyWhenBothExceed ==
  (reply.kind = "attachment" /\ reply.result.success) =>
    /\ reply.result.flow \in {"direct_injection", "vector_storage"}
    /\ reply.result.flow = "vector_storage" <=>
         /\ reply.result.char_count > AttachmentTextSizeThreshold
         /\ reply.request.file_size > AttachmentFileSizeThreshold

(* ------------------------------ chunking ------------------------------ *)

\* A text is a sequence of characters; a piece of a text is the pair <<lo, hi>>
\* of its first and last position (empty when hi < lo). Every string the
\* chunker derives from the text is a piece of it, which keeps the place of
\* every character of a chunk.
PieceLen(piece) == IF piece[2] < piece[1] THEN 0 ELSE piece[2] - piece[1] + 1
Content(text, piece) == SubSeq(text, piece[1], piece[2])

\* str.strip() of a piece: without its leading and trailing whitespace.
IsSpace(c) == c \in {" ", "\n"}
StripNothing(text, piece) == piece
Strip(text, piece) ==
  LET inside == {i \in piece[1]..piece[2] : ~IsSpace(text[i])}
  IN IF inside = {} THEN <<piece[1], piece[1] - 1>>
     ELSE <<CHOOSE i \in inside : \A j \in inside : i <= j,
            CHOOSE i \in inside : \A j \in inside : j <= i>>

\* The separators of the splitter, in order of priority.
Separators ==
  << <<"\n", "\n">>, <<"\n">>, <<".", " ">>, <<"?", " ">>, <<"!", " ">>,
     <<";", " ">>, <<",", " ">>, <<" ">>, << >> >>

\* The positions of a piece where a separator matches, from the left and
\* without overlaps (re.split).
RECURSIVE SeparatorStarts(_, _, _, _)
SeparatorStarts(text, i, hi, sep) ==
  IF i + Len(sep) - 1 > hi THEN << >>
  ELSE IF \A k \in 1..Len(sep) : text[i + k - 1] = sep[k]
  THEN <<i>> \o SeparatorStarts(text, i + Len(sep), hi, sep)
  ELSE SeparatorStarts(text, i + 1, hi, sep)

\* _split_text_with_regex with keep_separator: the piece before the first
\* separator and a piece from every separator to the next, a separator being
\* kept at the start of its piece; the characters of the piece for the empty
\* separator; empty pieces are left out.
SplitDropsSeparator(text, piece, sep) ==
  LET starts == SeparatorStarts(text, piece[1], piece[2], sep)
      n == Len(starts)
      all == [k \in 1..(n + 1) |->
                <<IF k = 1 THEN piece[1] ELSE starts[k - 1] + Len(sep),
                  IF k = n + 1 THEN piece[2] ELSE starts[k] - 1>>]
  IN IF sep = << >> THEN [k \in 1..PieceLen(piece) |-> <<piece[1] + k - 1, piece[1] + k - 1>>]
     ELSE SelectSeq(all, LAMBDA x : PieceLen(x) > 0)
SplitTextWithRegex(text, piece, sep) ==
  LET starts == SeparatorStarts(text, piece[1], piece[2], sep)
      n == Len(starts)
      all == [k \in 1..(n + 1) |->
                <<IF k = 1 THEN piece[1] ELSE starts[k - 1],
                  IF k = n + 1 THEN piece[2] ELSE starts[k] - 1>>]
  IN IF sep = << >> THEN [k \in 1..PieceLen(piece) |-> <<piece[1] + k - 1, piece[1] + k - 1>>]
     ELSE SelectSeq(all, LAMBDA x : PieceLen(x) > 0)

\* The piece the adjoining splits of current_doc make up, and its length.
DocPiece(current_doc) ==
  IF current_doc = << >> THEN <<1, 0>>
  ELSE <<current_doc[1][1], current_doc[Len(current_doc)][2]>>

\* _join_docs: the splits joined and stripped, or nothing when that is empty.
JoinDocs(text, current_doc) ==
  LET doc == Strip(text, DocPiece(current_doc))
  IN IF PieceLen(doc) = 0 THEN << >> ELSE <<doc>>

\* _merge_splits, the loop that drops splits from the front of current_doc
\* after a chunk was closed: while more than the overlap is kept, or the next
\* split of length len does not fit.
RECURSIVE PopKeepsAll(_, _)
PopKeepsAll(current_doc, len) ==
  IF PieceLen(DocPiece(current_doc)) + len > ChunkSize /\ current_doc # << >>
  THEN PopKeepsAll(Tail(current_doc), len) ELSE current_doc
RECURSIVE PopSplits(_, _)
PopSplits(current_doc, len) ==
  LET total == PieceLen(DocPiece(current_doc))
  IN IF total > ChunkOverlap \/ (total + len > ChunkSize /\ total > 0)
     THEN PopSplits(Tail(current_doc), len) ELSE current_doc

\* _merge_splits with the empty joining separator of keep_separator: the
\* chunks made of the small splits, filled up to the chunk size.
RECURSIVE MergeSplits(_, _, _, _)
MergeSplits(text, splits, current_doc, docs) ==
  IF splits = << >> THEN docs \o JoinDocs(text, current_doc)
  ELSE LET d == Head(splits)
           total == PieceLen(DocPiece(current_doc))
       IN IF total + PieceLen(d) > ChunkSize /\ current_doc # << >>
          THEN MergeSplits(text, Tail(splits),
                           Append(PopSplits(current_doc, PieceLen(d)), d),
                           docs \o JoinDocs(text, current_doc))
          ELSE MergeSplits(text, Tail(splits), Append(current_doc, d), docs)

\* RecursiveCharacterTextSplitter._split_text: split by the first separator
\* found in the piece, merge the splits shorter than the chunk size, split the
\* others by the separators that follow.
RECURSIVE SplitText(_, _, _)
RECURSIVE SplitPieces(_, _, _, _, _)
SplitPieces(text, splits, new_separators, good_splits, final_chunks) ==
  LET merged == IF good_splits = << >> THEN << >>
                ELSE MergeSplits(text, good_splits, << >>, << >>)
  IN IF splits = << >> THEN final_chunks \o merged
     ELSE IF PieceLen(Head(splits)) < ChunkSize
     THEN SplitPieces(text, Tail(splits), new_separators,
                      Append(good_splits, Head(splits)), final_chunks)
     ELSE SplitPieces(text, Tail(splits), new_separators, << >>,
                      final_chunks \o merged
                        \o (IF new_separators = << >> THEN <<Head(splits)>>
                            ELSE SplitText(text, Head(splits), new_separators)))
SplitText(text, piece, separators) ==
  LET found == {i \in DOMAIN separators :
                  \/ separators[i] = << >>
                  \/ SeparatorStarts(text, piece[1], piece[2], separators[i]) # << >>}
      i == IF found = {} THEN Len(separators)
           ELSE CHOOSE i \in found : \A j \in found : i <= j
      new_separators == IF found = {} \/ separators[i] = << >> THEN << >>
                        ELSE SubSeq(separators, i + 1, Len(separators))
  IN SplitPieces(text, SplitTextWithRegex(text, piece, separators[i]), new_separators,
                 << >>, << >>)

\* ChunkingService._detect_heading of a line: the piece of the heading text,
\* or << >> (None). The line is stripped and matched from its start against
\* the heading patterns in order.
NoHeading == << >>
DetectHeading(text, line) ==
  LET l == Strip(text, line)
      lo == l[1]
      hi == l[2]
      Ch(i) == IF i <= hi THEN text[i] ELSE "end"
      Upper == {"A", "B", "C", "D", "E", "F", "G", "H", "I", "J", "K", "L", "M",
                "N", "O", "P", "Q", "R", "S", "T", "U", "V", "W", "X", "Y", "Z"}
      Digit == {"0", "1", "2", "3", "4", "5", "6", "7", "8", "9"}
      Run(from, class) == CHOOSE n \in 0..(hi - lo + 1) :
                            /\ \A k \in 1..n : Ch(from + k - 1) \in class
                            /\ Ch(from + n) \notin class
      Prefix(w) == \A k \in DOMAIN w : Ch(lo + k - 1) = w[k]
      hashes == CHOOSE n \in 0..6 : /\ \A k \in 1..n : Ch(lo + k - 1) = "#"
                                    /\ n = 6 \/ Ch(lo + n) # "#"
      \* ^#{1,6}\s+(.+)$
      markdown == /\ hashes >= 1
                  /\ IsSpace(Ch(lo + hashes))
      \* ^\[Page \d+\]$ and ^\[Slide \d+\]$
      Marker(w) == /\ Prefix(w)
                   /\ lo + Len(w) + 1 <= hi
                   /\ \A i \in (lo + Len(w))..(hi - 1) : text[i] \in Digit
                   /\ text[hi] = "]"
      \* ^[A-Z][A-Z\s]{5,50}$
      caps == /\ hi - lo + 1 >= 6 /\ hi - lo + 1 <= 51
              /\ text[lo] \in Upper
              /\ \A i \in (lo + 1)..hi : text[i] \in Upper \/ IsSpace(text[i])
      \* ^\d+\.\s+[A-Z]
      digits == Run(lo, Digit)
      spaces == Run(lo + digits + 1, {" ", "\n"})
      numbered == /\ digits >= 1
                  /\ Ch(lo + digits) = "."
                  /\ spaces >= 1
                  /\ Ch(lo + digits + 1 + spaces) \in Upper
      \* ^Chapter\s+\d+ and ^Section\s+\d+
      Gap(w) == Run(lo + Len(w), {" ", "\n"})
      Number(w) == Run(lo + Len(w) + Gap(w), Digit)
      Titled(w) == Prefix(w) /\ Gap(w) >= 1 /\ Number(w) >= 1
      TitledMatch(w) == <<lo, lo + Len(w) + Gap(w) + Number(w) - 1>>
      Chapter == <<"C", "h", "a", "p", "t", "e", "r">>
      Section == <<"S", "e", "c", "t", "i", "o", "n">>
  IN IF PieceLen(l) = 0 THEN NoHeading
     ELSE IF markdown THEN Strip(text, <<lo + hashes, hi>>)
     ELSE IF Marker(<<"[", "P", "a", "g", "e", " ">>) THEN l
     ELSE IF Marker(<<"[", "S", "l", "i", "d", "e", " ">>) THEN l
     ELSE IF caps THEN l
     ELSE IF numbered THEN <<lo, lo + digits + 1 + spaces>>
     ELSE IF Titled(Chapter) THEN TitledMatch(Chapter)
     ELSE IF Titled(Section) THEN TitledMatch(Section)
     ELSE NoHeading

\* text.split('\n'): the lines of a text, as pieces, the empty ones included.
Lines(text) ==
  LET starts == SeparatorStarts(text, 1, Len(text), <<"\n">>)
      n == Len(starts)
  IN [k \in 1..(n + 1) |-> <<IF k = 1 THEN 1 ELSE starts[k - 1] + 1,
                             IF k = n + 1 THEN Len(text) ELSE starts[k] - 1>>]

\* _extract_sections, "save previous section if exists": the section of the
\* lines gathered under a title, if they hold more than whitespace.
SectionOf(text, current_title, current_content) ==
  LET content == Strip(text, DocPiece(current_content))
  IN IF current_content = << >> \/ PieceLen(content) = 0 THEN << >>
     ELSE <<[title |-> current_title, content |-> content]>>

\* _extract_sections, the loop over the lines.
RECURSIVE SectionsOfLines(_, _, _, _, _)
SectionsOfLines(text, lines, current_title, current_content, sections) ==
  IF lines = << >> THEN sections \o SectionOf(text, current_title, current_content)
  ELSE LET heading == DetectHeading(text, Head(lines))
       IN IF heading # NoHeading
          THEN SectionsOfLines(text, Tail(lines), heading, << >>,
                               sections \o SectionOf(text, current_title, current_content))
          ELSE SectionsOfLines(text, Tail(lines), current_title,
                               Append(current_content, Head(lines)), sections)

\* ChunkingService._extract_sections: the titled sections of a text, or the
\* whole text as one section when no section has content.
ExtractSections(text) ==
  LET sections == SectionsOfLines(text, Lines(text), NoHeading, << >>, << >>)
      whole == Strip(text, <<1, Len(text)>>)
  IN IF sections = << >> /\ PieceLen(whole) > 0
     THEN <<[title |-> NoHeading, content |-> whole]>>
     ELSE sections

\* A TextChunk; span and section record where its content lies in the text.
TextChunk(text, piece, chunk_index, section, number) ==
  [content |-> Content(text, piece), chunk_index |-> chunk_index, total_chunks |-> 0,
   section_title |-> IF section.title = NoHeading THEN NoHeading
                     ELSE Content(text, section.title),
   char_count |-> Len(Content(text, piece)), span |-> piece, section |-> number]

\* chunk_text, the body of the loop over the sections: the chunks of the
\* section with number `number`, stripped, the empty ones left out, indexed
\* from chunk_index on.
SectionChunksFromZero(text, section, number, chunk_index) ==
  LET docs == SplitText(text, section.content, Separators)
      stripped == [j \in DOMAIN docs |-> Strip(text, docs[j])]
      kept == SelectSeq(stripped, LAMBDA x : PieceLen(x) > 0)
  IN [j \in DOMAIN kept |-> TextChunk(text, kept[j], j - 1, section, number)]
SectionChunks(text, section, number, chunk_index) ==
  LET docs == SplitText(text, section.content, Separators)
      stripped == [j \in DOMAIN docs |-> Strip(text, docs[j])]
      kept == SelectSeq(stripped, LAMBDA x : PieceLen(x) > 0)
  IN [j \in DOMAIN kept |-> TextChunk(text, kept[j], chunk_index + j - 1, section, number)]

\* chunk_text, the loop over the sections.
RECURSIVE ChunkSections(_, _, _, _)
ChunkSections(text, sections, number, all_chunks) ==
  IF number > Len(sections) THEN all_chunks
  ELSE ChunkSections(text, sections, number + 1,
                     all_chunks \o SectionChunks(text, sections[number], number,
                                                 Len(all_chunks)))

\* ChunkingService.chunk_text.
ChunkText(text) ==
  IF PieceLen(Strip(text, <<1, Len(text)>>)) = 0 THEN << >>
  ELSE LET all_chunks == ChunkSections(text, ExtractSections(text), 1, << >>)
       IN [i \in DOMAIN all_chunks |->
             [all_chunks[i] EXCEPT !.total_chunks = Len(all_chunks)]]

\* The texts chunked: every text of up to MaxTextLen characters of the
\* alphabet, texts of two sections around a markdown heading, and texts with
\* the other kinds of heading.
Alphabet == {"a", " ", "\n", "#", "."}
TextsUpTo(n) == UNION {[1..k -> Alphabet] : k \in 0..n}
SectionTexts ==
  {pre \o <<"\n", "#", " ", "a", "\n">> \o post :
     pre \in TextsUpTo(2) \ {<< >>}, post \in TextsUpTo(2) \ {<< >>}}
HeadingTexts ==
  {<<"A", "B", " ", "C", "D", "E", "\n", "a", "a", "a", "a">>,
   <<"a", " ", "a", "\n", "1", ".", " ", "A", "a", "\n", "a", ".", " ", "a">>,
   <<"C", "h", "a", "p", "t", "e", "r", " ", "1", "\n", "a", "\n", "\n", "a", "a", "a">>,
   <<"[", "P", "a", "g", "e", " ", "1", "]", "\n", "a", "a", " ", "a">>}
Texts == TextsUpTo(MaxTextLen) \cup SectionTexts \cup HeadingTexts

\* A call of chunk_text with one of the texts.
ChunkInit ==
  /\ index = << >>
  /\ processing_status_store = [f \in Files |-> NoRecord]
  /\ task = [t \in Tasks |-> Idle]
  /\ deleted = NoResponse
  /\ settled = [f \in Files |-> NoCount]
  /\ reply \in {[kind |-> "text", text |-> text] : text \in Texts}

ChunkTextCall ==
  /\ reply.kind = "text"
  /\ reply' = [kind |-> "chunks", text |-> reply.text, chunks |-> ChunkText(reply.text)]
  /\ UNCHANGED <<index, processing_status_store, task, deleted, settled>>

ChunkSpec == ChunkInit /\ [][ChunkTextCall]_vars

(* -------------------------- chunking properties ----------------------- *)

\* The positions of the text a chunk holds, and those two chunks share.
Span(chunk) == chunk.span[1]..chunk.span[2]
Shared(c, d) == Cardinality(Span(c) \cap Span(d))

\* C18: the chunks of a chunk_text call have the chunk_index values 0..N-1
\* in output order, across sections too, total_chunks N, and char_count the
\* length of their content.
ChunkIndexInvariant ==
  reply.kind = "chunks" =>
    \A i \in DOMAIN reply.chunks :
      /\ reply.chunks[i].chunk_index = i - 1
      /\ reply.chunks[i].total_chunks = Len(reply.chunks)
      /\ reply.chunks[i].char_count = Len(reply.chunks[i].content)

\* C18: a text of two sections chunked into three chunks or more, the last
\* chunk of the second section with the last index.
IndexedAcrossSections ==
  /\ reply.kind = "chunks"
  /\ Len(reply.chunks) >= 3
  /\ reply.chunks[1].section = 1
  /\ reply.chunks[Len(reply.chunks)].section = 2
  /\ reply.chunks[Len(reply.chunks)].chunk_index = Len(reply.chunks) - 1

HeadingPositions(text) ==
  UNION {l[1]..l[2] : l \in {x \in Range(Lines(text)) : DetectHeading(text, x) # NoHeading}}

\* C20: the chunks of a text are pieces of it that follow each other in the
\* order of the text; every character of the text that is neither whitespace
\* nor in a heading line is in a chunk; two chunks share at most
\* chunk_overlap characters of the text.
ChunkCoverage ==
  reply.kind = "chunks" =>
    LET text == reply.text
        chunks == reply.chunks
    IN /\ \A i \in DOMAIN chunks :
            /\ Span(chunks[i]) \subseteq DOMAIN text
            /\ chunks[i].content = SubSeq(text, chunks[i].span[1], chunks[i].span[2])
            /\ chunks[i].content # << >>
       /\ \A i, j \in DOMAIN chunks : i < j =>
            /\ chunks[i].span[1] <= chunks[j].span[1]
            /\ chunks[i].span[2] <= chunks[j].span[2]
            /\ Shared(chunks[i], chunks[j]) <= ChunkOverlap
       /\ \A p \in DOMAIN text :
            (~IsSpace(text[p]) /\ p \notin HeadingPositions(text)) =>
              \E i \in DOMAIN chunks : p \in Span(chunks[i])

\* C20: a text with a heading line between two lines of content: two chunks
\* that hold every character of the content; the heading line and the line
\* breaks are in no chunk.
ContentKeptHeadingRemoved ==
  /\ reply.kind = "chunks"
  /\ Len(reply.chunks) = 2
  /\ HeadingPositions(reply.text) # {}
  /\ \A p \in DOMAIN reply.text :
       (\E i \in DOMAIN reply.chunks : p \in Span(reply.chunks[i]))
         <=> (~IsSpace(reply.text[p]) /\ p \notin HeadingPositions(reply.text))
  /\ \E p \in DOMAIN reply.text : reply.text[p] = "."

(* ------------------------------ deletion ------------------------------ *)

\* The documents of the deletion specification.
DeleteDocs == {d \in Docs : d.name \in {"A", "B"}}

\* The keys of the deletes of the deletion specification.
DeleteTargets == {"f1", "r1", "c1"}

\* Deletes by file, room and conversation in one worker, with the uploads
\* into one room and the attachments of another worker as the writers.
DeleteNext ==
  \/ \E f \in Files : IngestDocument(2, "w2", f, "r1")
  \/ IngestPrepare(2, DeleteDocs, {TRUE})
  \/ DeleteOldVectors(2, {TRUE})
  \/ StoreChunks(2, {TRUE})
  \/ \E c \in Convs :
       Query("w2", "q2", {"r1"}, Null, 0, c, TRUE,
             [flow |-> "vector_storage", chunks |-> <<4, 5, 6, 7>>], "none")
  \/ \E kind \in DeleteKinds :
       \E key \in DeleteKeys(kind) \cap DeleteTargets :
         DeleteCount(1, Local, kind, key, {TRUE})
  \/ DeleteByFilter(1, BOOLEAN)

DeleteSpec == Init /\ [][DeleteNext]_vars

\* The lists a search scoped to the key of a delete may return: a room
\* search of the room, a room search of the file in every room, a conversation
\* search of the conversation.
ScopedSearch(idx, q, kind, key) ==
  CASE kind = "delroom" -> Search(idx, q, {key}, Null, TopKResults, MinRelevanceScore)
    [] kind = "delfile" -> Search(idx, q, Rooms, key, TopKResults, MinRelevanceScore)
    [] OTHER -> SearchByConversation(idx, q, key, TopKResults, MinRelevanceScore)

\* C10: with no writer between its count and its delete, delete_room,
\* delete_file and delete_conversation_vectors return the number of vectors
\* the index holds for their key, and afterwards the index holds none and a
\* search scoped to the key returns no result.
DeletionCountAccurate ==
  [][\A t \in Tasks :
       ( /\ task[t].kind \in DeleteKinds
         /\ task[t].pc = "counted"
         /\ ~task[t].overlapped
         /\ task'[t] = Idle
         /\ deleted'.vectors_deleted # NullCount ) =>
         /\ deleted'.kind = task[t].kind /\ deleted'.key = task[t].key
         /\ deleted'.vectors_deleted = IndexCount(index, TaskFilter(task[t]))
         /\ IndexCount(index', TaskFilter(task[t])) = 0
         /\ \A q \in Queries :
              ScopedSearch(index', q, task[t].kind, task[t].key) = {<< >>}]_vars

\* C10: delete_room of a room holding 7 vectors returned 7; none is left.
SevenDeleted ==
  /\ deleted = [kind |-> "delroom", key |-> "r1", vectors_deleted |-> 7,
                overlapped |-> FALSE]
  /\ IndexCount(index, RoomFilter("r1")) = 0
  /\ AllIdle

\* C11: every delete_file / delete_room / delete_conversation_vectors call
\* returns the number of records its delete removed from the index, also when
\* a write on matching records comes between its count and its delete.
DeleteCountExact ==
  [][\A t \in Tasks :
       ( /\ task[t].kind \in DeleteKinds
         /\ task[t].pc = "counted"
         /\ task'[t] = Idle
         /\ deleted'.vectors_deleted # NullCount ) =>
         deleted'.vectors_deleted =
           IndexCount(index, TaskFilter(task[t])) - IndexCount(index', TaskFilter(task[t]))]_vars

(* ------------------------ further ingestion properties ----------------- *)

\* C21: when a POST /ingest handler of the observed worker returns, the
\* status record of its file_id is completed if it stored the chunks and
\* failed if it did not.
SyncIngestRecordsStatus ==
  [][\A t \in Tasks :
       ( /\ task[t].kind = "sync"
         /\ task[t].proc = Local
         /\ task'[t] = Idle ) =>
         Status(processing_status_store'[task[t].key])
           = IF Stored(t) THEN "completed" ELSE "failed"]_vars

(* ------------------------ further retrieval properties ----------------- *)

\* C22: a query whose room search raises, or whose conversation search raises
\* in a dual retrieval, ends in an error: no result set and no sources are
\* returned, not even the room results found before the conversation search
\* raised, and the generator is not called.
NoPartialResults ==
  ( /\ reply.kind \in {"response", "error"}
    /\ \/ reply.fault = "search"
       \/ reply.fault = "search_by_conversation" /\ reply.trace.dual ) =>
    /\ reply.kind = "error"
    /\ reply.trace.search_results = << >>
    /\ reply.trace.generator_calls = 0

\* C22: a dual retrieval whose room search found the chunks scoring 0.9 and
\* 0.4 and whose conversation search then raised.
ConversationSearchRaised ==
  /\ reply.kind = "error"
  /\ reply.trace.dual
  /\ reply.fault = "search_by_conversation"
  /\ Scores(reply.trace.room_results) = <<90, 40>>
  /\ IndexCount(index, ConversationSearchFilter("c1")) = 2

\* C23: a query that retrieved a non-empty result set and whose external
\* services do not fail answers a response whose sources are the results one
\* by one in their order (best score first), with content cut to its first
\* 500 characters; chunks_retrieved is their number, at most top_k, and the
\* generator is called once with the results.
SourcesDerivedFromResults ==
  (reply.kind \in {"response", "error"} /\ reply.trace.search_results # << >>) =>
    LET results == reply.trace.search_results
    IN /\ reply.kind = "response"
       /\ reply.trace.generator_calls = 1
       /\ Len(reply.sources) = Len(results)
       /\ \A i \in DOMAIN results :
            /\ reply.sources[i].file_id = results[i].file_id
            /\ reply.sources[i].chunk_index = results[i].chunk_index
            /\ reply.sources[i].relevance_score = results[i].score
            /\ reply.sources[i].content.of = results[i].content
            /\ reply.sources[i].content.chars = Min(ContentChars(results[i].content), 500)
       /\ \A i, j \in DOMAIN results :
            i < j => reply.sources[i].relevance_score >= reply.sources[j].relevance_score
       /\ reply.chunks_retrieved = Len(results)
       /\ reply.chunks_retrieved <= reply.trace.k

\* The record a search result was formatted from is in the scope of a room
\* search / of a conversation search.
InRoomScope(result, room_ids, context_file_id) ==
  /\ result.id[1].room_id \in room_ids
  /\ result.room_id \in room_ids
  /\ context_file_id # Null => result.id[1].file_id = context_file_id
InConversationScope(result, conversation_id) ==
  /\ result.id[1].conversation_id = conversation_id
  /\ result.id[1].is_temporary = "True"

\* C24: over the index of every state, every result of the room search of a
\* request is a record of one of the rooms of the request and, when the
\* request names a context file, of that file; every result of the
\* conversation search of a request is a temporary record of the conversation
\* of the request.
SearchScoping ==
  /\ \A scope \in QueryScopes :
       \A results \in Search(index, "q1", scope.room_ids, scope.context_file_id,
                             TopKResults, MinRelevanceScore) :
         \A i \in DOMAIN results :
           InRoomScope(results[i], scope.room_ids, scope.context_file_id)
  /\ \A conversation_id \in {"c1", "c2"} :
       \A results \in SearchByConversation(index, "q1", conversation_id,
                                           TopKResults, MinRelevanceScore) :
         \A i \in DOMAIN results : InConversationScope(results[i], conversation_id)

\* C24: a dual retrieval found the two relevant chunks of room r1 and those
\* of conversation c1 while the index holds the same chunks in room r2 and
\* in conversation c2.
ScopedResults ==
  /\ reply.kind = "error"
  /\ reply.trace.dual
  /\ Scores(reply.trace.room_results) = <<90, 40>>
  /\ \A i \in DOMAIN reply.trace.room_results : reply.trace.room_results[i].room_id = "r1"
  /\ Scores(reply.trace.attachment_results) = <<80, 30>>
  /\ \A i \in DOMAIN reply.trace.attachment_results :
       reply.trace.attachment_results[i].id[1].conversation_id = "c1"
  /\ IndexCount(index, RoomFilter("r2")) = 3
  /\ IndexCount(index, ConversationSearchFilter("c2")) = 2

(* --------------------------- status lifetime --------------------------- *)

\* The documents of the status-lifetime specification.
LifetimeDocs == {d \in Docs : d.name \in {"A", "broken"}}

\* Background and synchronous ingestions and deletes by file of two
\* file_ids, all served by one worker.
LifetimeNext ==
  \/ \E t \in Tasks, f \in Files : IngestFromS3(t, Local, f, "r1")
  \/ \E t \in Tasks : ProcessStart(t)
  \/ \E t \in Tasks : ProcessPrepare(t, LifetimeDocs, {TRUE})
  \/ \E t \in Tasks, f \in Files : IngestDocument(t, Local, f, "r1")
  \/ \E t \in Tasks : IngestPrepare(t, LifetimeDocs, {TRUE})
  \/ \E t \in Tasks : DeleteOldVectors(t, {TRUE})
  \/ \E t \in Tasks : StoreChunks(t, BOOLEAN)
  \/ \E t \in Tasks, f \in Files : DeleteCount(t, Local, "delfile", f, {TRUE})
  \/ \E t \in Tasks : DeleteByFilter(t, {TRUE})

LifetimeSpec == Init /\ [][LifetimeNext]_vars

\* The step accepts a background submission of file_id f.
Submits(f) ==
  \E t \in Tasks :
    /\ task[t] = Idle
    /\ task'[t].kind = "s3" /\ task'[t].pc = "queued" /\ task'[t].key = f

\* C25: the status record of a file_id is absent until a background
\* submission of the file_id is accepted; once present no step removes it,
\* a delete of the vectors of the file included; and a submission of the
\* file_id leaves the pending record whatever the record was.
StatusRecordLifetime ==
  [][\A f \in Files :
       /\ Status(processing_status_store[f]) # "none" =>
            Status(processing_status_store'[f]) # "none"
       /\ ( /\ Status(processing_status_store[f]) = "none"
            /\ Status(processing_status_store'[f]) # "none" ) => Submits(f)
       /\ Submits(f) => processing_status_store'[f] = Pending
       /\ (\E t \in Tasks : task[t].kind = "delfile" /\ task'[t] = Idle) =>
            processing_status_store'[f] = processing_status_store[f]]_vars

\* C25: the record of f1 is completed with 3 chunks after DELETE /ingest/f1
\* removed the 3 vectors; f2, ingested and completed before, was submitted
\* again and its record is pending while its 3 vectors are still stored.
RecordOutlivesVectors ==
  /\ processing_status_store["f1"] = Completed(3)
  /\ deleted.kind = "delfile" /\ deleted.key = "f1" /\ deleted.vectors_deleted = 3
  /\ IndexCount(index, FileFilter("f1")) = 0
  /\ processing_status_store["f2"] = Pending
  /\ IndexCount(index, FileFilter("f2")) = 3

(* --------------------------- completed count --------------------------- *)

\* C26: the record of a file_id becomes completed only by the step of a
\* background run that stored its chunks; its chunks_created is then the
\* number of points that step added to the index, and when no other
\* ingestion or delete of the file_id overlapped the run, the number of
\* points of the file_id in the index after the step.
CompletedCountsStoredChunks ==
  [][/\ \A t \in Tasks :
          (task[t].kind = "s3" /\ task[t].proc = Local /\ Stored(t)) =>
            LET f == task[t].key
                rec == processing_status_store'[f]
            IN /\ Status(rec) = "completed"
               /\ rec.chunks_created = IndexCount(index', {}) - IndexCount(index, {})
               /\ rec.chunks_created = Len(task[t].doc.chunks)
               /\ ~task[t].overlapped =>
                    IndexCount(index', FileFilter(f)) = rec.chunks_created
     /\ \A f \in Files :
          ( /\ Status(processing_status_store'[f]) = "completed"
            /\ processing_status_store'[f] # processing_status_store[f] ) =>
            \E t \in Runs(f) : Stored(t)]_vars

\* C26: a background run of f1 that nothing overlapped stored the 4 chunks of
\* document B and recorded completed with chunks_created 4; the index holds
\* 4 vectors of f1.
CompletedWithFour ==
  /\ processing_status_store["f1"] = Completed(4)
  /\ settled["f1"].count = 4
  /\ settled["f1"].doc = "B"
  /\ IndexCount(index, FileFilter("f1")) = 4

(* ------------------------ further chunking properties ------------------ *)

\* The heading lines of a text that end before position p.
HeadingsBefore(text, p) ==
  {l \in Range(Lines(text)) : DetectHeading(text, l) # NoHeading /\ l[2] < p}

\* The title of the nearest heading line before position p, if there is one.
NearestTitle(text, p) ==
  IF HeadingsBefore(text, p) = {} THEN NoHeading
  ELSE LET l == CHOOSE x \in HeadingsBefore(text, p) :
                  \A y \in HeadingsBefore(text, p) : y[1] <= x[1]
       IN Content(text, DetectHeading(text, l))

\* C27: every chunk of a text has as section_title the title of the nearest
\* heading line before it (null when there is none), and holds no character
\* of a heading line, so that its content is of one section.
SectionTitles ==
  reply.kind = "chunks" =>
    \A i \in DOMAIN reply.chunks :
      /\ Span(reply.chunks[i]) \cap HeadingPositions(reply.text) = {}
      /\ reply.chunks[i].section_title = NearestTitle(reply.text, reply.chunks[i].span[1])

\* C28: chunk_text of a text that is empty or holds only whitespace returns
\* no chunk (and returns: it raises nothing), and the content of every chunk
\* any call returns is not empty and has no whitespace at its ends.
FailsClosed ==
  reply.kind = "chunks" =>
    /\ (\A p \in DOMAIN reply.text : IsSpace(reply.text[p])) => reply.chunks = << >>
    /\ \A i \in DOMAIN reply.chunks :
         LET content == reply.chunks[i].content
         IN /\ content # << >>
            /\ ~IsSpace(content[1])
            /\ ~IsSpace(content[Len(content)])

\* C28: chunk_text of a text of blanks and line breaks returned no chunk.
WhitespaceOnlyChunked ==
  /\ reply.kind = "chunks"
  /\ Len(reply.text) >= 2
  /\ \A p \in DOMAIN reply.text : IsSpace(reply.text[p])
  /\ \E p, q \in DOMAIN reply.text : reply.text[p] = " " /\ reply.text[q] = "\n"
  /\ reply.chunks = << >>

(* ----------------------------- frame effects --------------------------- *)

\* C29: no step of an ingestion before the count of its delete_file changes
\* the index; so a synchronous or background run that ends at the
\* validation, the download, the extraction, the chunking or the embedding
\* leaves every vector of the index, those of its file_id included, in place.
FailedRunKeepsVectors ==
  [][\A t \in Tasks :
       /\ ( /\ task[t].kind \in IngestKinds
            /\ task[t].pc \in {"queued", "downloading", "reading"}
            /\ task'[t].pc # task[t].pc ) => index' = index
       /\ ( /\ task[t] = Idle
            /\ task'[t].kind \in IngestKinds ) => index' = index]_vars

\* C29: a background run of f1 failed at the embedding while the index held
\* the 3 vectors of an earlier run; they are still there.
VectorsKeptAfterFailure ==
  /\ AllIdle
  /\ processing_status_store["f1"] = Failed("embedding failed")
  /\ settled["f1"].count = 3
  /\ IndexCount(index, FileFilter("f1")) = 3

\* The payload key a delete handler selects on.
KeyField(kind) ==
  CASE kind = "delfile" -> "file_id" [] kind = "delroom" -> "room_id"
    [] OTHER -> "conversation_id"

\* C30: the delete of delete_file(f), delete_room(r) and
\* delete_conversation_vectors(c) removes only records whose file_id is f,
\* room_id is r, conversation_id is c, and leaves every other record as it
\* was: a conversation delete removes no record of a room document, a file
\* or room delete no temporary record; the count of a delete changes nothing.
DeletesAreScoped ==
  [][\A t \in Tasks :
       /\ (task[t].kind \in DeleteKinds /\ task[t].pc = "counted" /\ task'[t] = Idle) =>
            /\ DOMAIN index' \subseteq DOMAIN index
            /\ \A e \in DOMAIN index :
                 IF e \in DOMAIN index' THEN index'[e] = index[e]
                 ELSE e[KeyField(task[t].kind)] = task[t].key
            /\ \A e \in DOMAIN index :
                 /\ (task[t].kind = "delconv" /\ e.is_temporary # "True") => e \in DOMAIN index'
                 /\ (task[t].kind # "delconv" /\ e.is_temporary = "True") => e \in DOMAIN index'
       /\ (task[t] = Idle /\ task'[t].kind \in DeleteKinds) => index' = index]_vars

\* C30: DELETE /ingest/f1 removed the 3 vectors of f1; the 4 vectors of f2 in
\* the same room and the 4 temporary vectors of a conversation are stored.
OtherRecordsKept ==
  /\ deleted = [kind |-> "delfile", key |-> "f1", vectors_deleted |-> 3,
                overlapped |-> FALSE]
  /\ IndexCount(index, FileFilter("f1")) = 0
  /\ IndexCount(index, FileFilter("f2")) = 4
  /\ IndexCount(index, {MatchValue("is_temporary", "True")}) = 4

=============================================================================
